---- MODULE Spec2Model ----
(***************************************************************************)
(* Allium: the alliumd supervisor daemon (src/alliumd/src/alliumd.rs).     *)
(*                                                                         *)
(* The daemon owns one "main" child (launcher or game) and an optional     *)
(* "menu" child, a settings record (volume, brightness) persisted to the   *)
(* ALLIUMD_STATE file, and a tokio::select! loop over key events, child    *)
(* exits and OS signals.  Every handler is one atomic action.              *)
(*                                                                         *)
(* Specifications:                                                         *)
(*   Spec          the daemon on the device: boot, load(), the event loop, *)
(*                 the children and the launcher as environment.  The      *)
(*                 settings file is one the daemon itself can have left    *)
(*                 behind (absent, a snapshot, or a truncated snapshot).   *)
(*   FairSpec      Spec with the fairness of select! over ready branches.  *)
(*   SpecOffDevice Spec and a power-off whose exec of poweroff fails, so    *)
(*                 that the loop goes on with is_terminating set.          *)
(*   SpecAdd       add_volume / add_brightness applied to every delta of   *)
(*                 Deltas32 / Deltas8 from every in-range value.           *)
(*   SpecPersist   save() / load() over every in-range record and over     *)
(*                 settings files of arbitrary content.                    *)
(*   SpecCrash     SpecPersist and a loss of power inside save().          *)
(*   SpecSpawnFail Spec where Command::spawn can fail.                     *)
(*   SpecLauncher  the launcher's listings (src/allium-launcher/src/state/ *)
(*                 games.rs and recents.rs): handle_key_event applied to   *)
(*                 every key event, from a listing of 0..MaxLen entries.   *)
(***************************************************************************)
EXTENDS Integers, Sequences, FiniteSets, TLC

VARIABLES
    pc,                     \* where the daemon is: boot, loaded, wait, poweroff, aborted, hung
    stateFile,              \* ALLIUMD_STATE: <<>> when absent, <<text>> when present
    gameInfo,               \* ALLIUM_GAME_INFO exists
    main,                   \* AlliumD.main: the Child handle and its process
    orphans,                \* main processes spawned and dropped without being waited for
    menu,                   \* AlliumD.menu: <<>> is None, <<child>> is Some(child)
    is_menu_pressed,        \* AlliumD.is_menu_pressed
    is_menu_pressed_alone,  \* AlliumD.is_menu_pressed_alone
    is_terminating,         \* AlliumD.is_terminating
    volume,                 \* AlliumD.volume (i32)
    brightness,             \* AlliumD.brightness (u8)
    hw,                     \* what platform.set_volume / set_brightness last wrote
    ev,                     \* the event source whose handler ran last
    last_key,               \* the key event handled last, <<>> before the first
    trace,                  \* the calls made by the handler that ran last, in order
    adjusts,                \* volume-key events handled so far (bounded by MaxAdjust)
    delta,                  \* the delta of the last direct add_volume / add_brightness call (SpecAdd)
    recorded,               \* add_play_time was called for the interval since GameInfo.start_time
    launcher                \* the launcher's listing state (GamesState / RecentsState), see SpecLauncher

vars == <<pc, stateFile, gameInfo, main, orphans, menu, is_menu_pressed,
          is_menu_pressed_alone, is_terminating, volume, brightness, hw,
          ev, last_key, trace, adjusts, delta, recorded, launcher>>

-----------------------------------------------------------------------------
(* Bounds of the model.                                                    *)

\* volume-key events (Pressed/Autorepeat of VolUp/VolDown) per behaviour
MaxAdjust == 2

\* entries of a launcher listing (a games directory, the recent games)
MaxLen == 6

\* directories open at once in the games listing (the length of GamesState.stack)
MaxDepth == 2

\* common::constants::LISTING_SIZE, the rows of a listing on the screen, and
\* common::constants::LISTING_JUMP_SIZE, the step of Left and Right.  The
\* navigation code uses them as positive i32 parameters only; the model takes
\* small values with LISTING_JUMP_SIZE < LISTING_SIZE < MaxLen, so that
\* listings shorter and longer than the screen and jumps that do and do not
\* scroll all occur.
LISTING_SIZE == 3

LISTING_JUMP_SIZE == 2

-----------------------------------------------------------------------------
(* Machine integers.                                                       *)

I32Max == 2147483647
I32Min == (-I32Max) - 1
I8Max == 127
I8Min == (-I8Max) - 1
U8Max == 255

\* Ord::clamp
Clamp(x, lo, hi) == IF x < lo THEN lo ELSE IF x > hi THEN hi ELSE x

\* a + b leaves the i32 range
OverflowsI32(a, b) == \/ b > 0 /\ a > I32Max - b
                      \/ b < 0 /\ a < I32Min - b

\* two's-complement a + b in i32, computed without leaving the i32 range
WrapAddI32(a, b) ==
    IF b > 0 /\ a > I32Max - b THEN I32Min + ((a - (I32Max - b)) - 1)
    ELSE IF b < 0 /\ a < I32Min - b THEN I32Max - (((I32Min - b) - a) - 1)
    ELSE a + b

\* `x as i8` for a u8 x
U8AsI8(x) == IF x > I8Max THEN x - (U8Max + 1) ELSE x

OverflowsI8(a, b) == a + b > I8Max \/ a + b < I8Min

\* two's-complement a + b in i8
WrapAddI8(a, b) == ((a + b - I8Min) % (U8Max + 1)) + I8Min

\* `x as u8` for an i8 x
I8AsU8(x) == IF x < 0 THEN x + (U8Max + 1) ELSE x

-----------------------------------------------------------------------------
(* Settings: add_volume, add_brightness.                                   *)

\* The outcomes of add_volume(add) from volume v.  The i32 sum panics in a
\* build with overflow checks and wraps in one without.
add_volume(v, add) ==
    IF OverflowsI32(v, add)
    THEN {[panic |-> TRUE, value |-> v],
          [panic |-> FALSE, value |-> Clamp(WrapAddI32(v, add), 0, 20)]}
    ELSE {[panic |-> FALSE, value |-> Clamp(v + add, 0, 20)]}

\* The outcomes of add_brightness(add) from brightness b: the sum is taken
\* in i8 after `b as i8`, clamped, and cast back to u8.
add_brightness(b, add) ==
    IF OverflowsI8(U8AsI8(b), add)
    THEN {[panic |-> TRUE, value |-> b],
          [panic |-> FALSE,
           value |-> I8AsU8(Clamp(WrapAddI8(U8AsI8(b), add), 0, 100))]}
    ELSE {[panic |-> FALSE, value |-> I8AsU8(Clamp(U8AsI8(b) + add, 0, 100))]}

-----------------------------------------------------------------------------
(* The settings file: serde_json text of {"volume":..,"brightness":..}.    *)
(* A text is modelled by the characters of its two numbers and by what     *)
(* follows the closing brace; a field that is cut off has no characters.   *)

DigitChar == <<"0", "1", "2", "3", "4", "5", "6", "7", "8", "9">>

DigitVal(c) == (CHOOSE i \in 1..10 : DigitChar[i] = c) - 1

IsDigit(c) == \E i \in 1..10 : DigitChar[i] = c

\* a formatter that writes the last digit only
FormatNat_last_digit(n) == <<DigitChar[(n % 10) + 1]>>

RECURSIVE FormatNat(_)
FormatNat(n) ==
    IF n < 10 THEN <<DigitChar[n + 1]>>
    ELSE Append(FormatNat(n \div 10), DigitChar[(n % 10) + 1])

\* itoa, as serde_json writes an integer
FormatInt(n) == IF n < 0 THEN <<"-">> \o FormatNat(-n) ELSE FormatNat(n)

\* serde_json::to_string(self): only volume and brightness are not skipped
Serialize(v, b) ==
    [volume |-> FormatInt(v), brightness |-> FormatInt(b), tail |-> <<>>]

\* The digits s[i..] read onto acc (acc <= 0: the value is accumulated
\* negated, so that i32::MIN is read without leaving the range);
\* 1 when a character is no digit or the value leaves i32.
RECURSIVE ParseDigits(_, _, _)
ParseDigits(s, i, acc) ==
    IF i > Len(s) THEN acc
    ELSE IF ~IsDigit(s[i]) THEN 1
    ELSE IF acc < ((I32Min + DigitVal(s[i])) + 9) \div 10 THEN 1
    ELSE ParseDigits(s, i + 1, (acc * 10) - DigitVal(s[i]))

\* A JSON integer read as i32: <<n>>, or <<>> when it is none.
ParseI32(s) ==
    LET neg == Len(s) > 0 /\ s[1] = "-"
        first == IF neg THEN 2 ELSE 1
        m == ParseDigits(s, first, 0)
    IN IF Len(s) < first THEN <<>>
       ELSE IF Len(s) > first /\ s[first] = "0" THEN <<>>
       ELSE IF m = 1 THEN <<>>
       ELSE IF neg THEN <<m>>
       ELSE IF m = I32Min THEN <<>>
       ELSE <<-m>>

\* A JSON integer read as u8
ParseU8(s) ==
    LET r == ParseI32(s)
    IN IF r # <<>> /\ r[1] >= 0 /\ r[1] <= U8Max /\ s[1] # "-" THEN r ELSE <<>>

\* from_str without its check that nothing follows the value
Deserialize_lenient(text) ==
    LET v == ParseI32(text.volume)
        b == ParseU8(text.brightness)
    IN IF v = <<>> \/ b = <<>>
       THEN [ok |-> FALSE, built |-> FALSE, volume |-> 0, brightness |-> 0]
       ELSE [ok |-> TRUE, built |-> TRUE, volume |-> v[1], brightness |-> b[1]]

\* serde_json::from_str::<AlliumD>(text).  The derived visitor reads the
\* fields, then builds the struct, evaluating the default of the skipped
\* field main (spawn_main) while it does; from_str then checks that nothing
\* follows the value.  built: the struct was built, so spawn_main ran.
Deserialize(text) ==
    LET v == ParseI32(text.volume)
        b == ParseU8(text.brightness)
    IN IF v = <<>> \/ b = <<>>
       THEN [ok |-> FALSE, built |-> FALSE, volume |-> 0, brightness |-> 0]
       ELSE [ok |-> text.tail = <<>>, built |-> TRUE,
             volume |-> v[1], brightness |-> b[1]]

-----------------------------------------------------------------------------
(* Child processes.  A Child is the handle and the process it names:       *)
(*   state  running | stopped | zombie (exited, not waited for) | reaped   *)
(*          (waited to completion: Child::id() is None from then on)       *)
(*   prog   launcher | game | menu                                         *)
(*   sig    RUNNING | STOPPED: the last of STOP / CONT sent to its pid     *)

None == <<>>

Some(x) == <<x>>

\* Command::spawn
Spawn(prog) == [state |-> "running", prog |-> prog, sig |-> "RUNNING"]

\* a Child::id() that keeps the pid after the child was waited for
HasPid_always(child) == TRUE

\* Child::id() is Some
HasPid(child) == child.state # "reaped"

\* signal with its CONT arm lost: a stopped process is never resumed
signal_without_cont(child, s) ==
    IF ~HasPid(child) \/ s = "CONT" THEN child
    ELSE IF s = "STOP"
         THEN [child EXCEPT !.sig = "STOPPED",
                            !.state = IF @ = "running" THEN "stopped" ELSE @]
    ELSE [child EXCEPT !.state = IF @ = "running" THEN "zombie" ELSE @]

\* signal with its STOP arm lost: the process is never suspended
signal_without_stop(child, s) ==
    IF ~HasPid(child) \/ s = "STOP" THEN child
    ELSE IF s = "CONT"
         THEN [child EXCEPT !.sig = "RUNNING",
                            !.state = IF @ = "stopped" THEN "running" ELSE @]
    ELSE [child EXCEPT !.state = IF @ = "running" THEN "zombie" ELSE @]

\* signal(child, s): kill(pid, s) when the pid is known, nothing otherwise.
\* STOP suspends a running process and CONT resumes a stopped one; TERM ends
\* a running process and stays pending on a stopped one; a zombie ignores all.
signal(child, s) ==
    IF ~HasPid(child) THEN child
    ELSE IF s = "STOP"
         THEN [child EXCEPT !.sig = "STOPPED",
                            !.state = IF @ = "running" THEN "stopped" ELSE @]
    ELSE IF s = "CONT"
         THEN [child EXCEPT !.sig = "RUNNING",
                            !.state = IF @ = "stopped" THEN "running" ELSE @]
    ELSE [child EXCEPT !.state = IF @ = "running" THEN "zombie" ELSE @]

\* what signal(child, s) adds to the trace: the kill it made, if any
signalled(child, s, who) == IF HasPid(child) THEN <<<<s, who>>>> ELSE <<>>

\* wait() that is not ready again once the child has been waited for
Exited_once(child) == child.state = "zombie"

\* child.wait() returns: the child has exited
Exited(child) == child.state \in {"zombie", "reaped"}

\* the handle after child.wait() has returned
Waited(child) == [child EXCEPT !.state = "reaped"]

\* spawn_main() sets GameInfo.start_time to now: a new interval begins
start_time_reset(gi, rec) == IF gi THEN FALSE ELSE rec

\* spawn_main(): the game of GameInfo when it exists, the launcher otherwise
spawn_main(gi) == Spawn(IF gi THEN "game" ELSE "launcher")

\* the calls of spawn_main()
spawn_main_calls(gi) ==
    IF gi THEN <<<<"start_time", "game_info">>, <<"spawn", "game">>>>
    ELSE <<<<"spawn", "launcher">>>>

\* an is_ingame() that never finds GameInfo
is_ingame_never == FALSE

\* is_ingame()
is_ingame == gameInfo

\* how often call c occurs in the trace tr of a handler
Count(tr, c) == Cardinality({i \in 1..Len(tr) : tr[i] = c})

\* how often a handler with trace tr called spawn_main
SpawnMainCount(tr) == Count(tr, <<"spawn", "game">>) + Count(tr, <<"spawn", "launcher">>)

-----------------------------------------------------------------------------
(* Startup: AlliumD::load, AlliumD::new, the head of run_event_loop.       *)

NoChild == [state |-> "reaped", prog |-> "none", sig |-> "RUNNING"]

\* The launcher's listings are not part of the daemon: outside SpecLauncher
\* the variable keeps this value.
NoLauncher == [state |-> "none"]

\* Before the daemon starts: no child, the state of a process just started.
Boot(files) ==
    /\ pc = "boot"
    /\ stateFile \in files
    /\ gameInfo \in BOOLEAN
    /\ main = NoChild
    /\ orphans = 0
    /\ menu = None
    /\ is_menu_pressed = FALSE
    /\ is_menu_pressed_alone = FALSE
    /\ is_terminating = FALSE
    /\ volume = 0
    /\ brightness = 0
    /\ hw = [volume |-> -1, brightness |-> -1]
    /\ ev = "boot"
    /\ last_key = <<>>
    /\ trace = <<>>
    /\ adjusts = 0
    /\ delta = 0
    /\ recorded \in (IF gameInfo THEN BOOLEAN ELSE {FALSE})
    /\ launcher = NoLauncher

\* new() with the brightness default lost
new_zeroed == [volume |-> 0, brightness |-> 0]

\* AlliumD::new(): the settings of a daemon built without a file
new == [volume |-> 0, brightness |-> 50]

\* AlliumD::load().  spawn_ok: Command::spawn succeeds (spawn_main unwraps it).
Load(spawn_ok) ==
    /\ pc = "boot"
    /\ LET d == IF stateFile = None
                THEN [ok |-> FALSE, built |-> FALSE, volume |-> 0, brightness |-> 0]
                ELSE Deserialize(stateFile[1])
           removed == IF stateFile = None THEN <<>> ELSE <<<<"remove_file", "state">>>>
       IN IF d.ok
          THEN \* from_str returned the record: main is the default's child
               /\ volume' = d.volume
               /\ brightness' = d.brightness
               /\ trace' = spawn_main_calls(gameInfo)
               /\ UNCHANGED <<stateFile, orphans>>
          ELSE \* not read: the file is removed if there is one, then new()
               /\ volume' = new.volume
               /\ brightness' = new.brightness
               /\ IF d.built
                  THEN \* the record was built and then dropped with its child
                       /\ trace' = spawn_main_calls(gameInfo)
                                   \o (IF spawn_ok
                                       THEN removed \o spawn_main_calls(gameInfo)
                                       ELSE <<>>)
                       /\ orphans' = IF spawn_ok THEN orphans + 1 ELSE orphans
                       /\ stateFile' = IF spawn_ok THEN None ELSE stateFile
                  ELSE /\ trace' = removed \o spawn_main_calls(gameInfo)
                       /\ orphans' = orphans
                       /\ stateFile' = None
    /\ main' = IF spawn_ok THEN spawn_main(gameInfo) ELSE main
    /\ pc' = IF spawn_ok THEN "loaded" ELSE "aborted"
    /\ menu' = None
    /\ is_menu_pressed' = FALSE
    /\ is_menu_pressed_alone' = FALSE
    /\ is_terminating' = FALSE
    /\ ev' = "load"
    /\ recorded' = start_time_reset(gameInfo, recorded)
    /\ UNCHANGED <<gameInfo, hw, last_key, adjusts, delta, launcher>>

\* run_event_loop() up to the loop: the settings are written to the hardware
RunEventLoopEnter ==
    /\ pc = "loaded"
    /\ hw' = [volume |-> volume, brightness |-> brightness]
    /\ pc' = "wait"
    /\ ev' = "start"
    /\ trace' = <<<<"set_volume", "platform">>, <<"set_brightness", "platform">>,
                  <<"init", "wifi">>>>
    /\ UNCHANGED <<stateFile, gameInfo, main, orphans, menu, is_menu_pressed,
                   is_menu_pressed_alone, is_terminating, volume, brightness,
                   last_key, adjusts, delta, recorded, launcher>>

-----------------------------------------------------------------------------
(* The event loop: one action per branch of tokio::select!.                *)

Keys == {"Menu", "VolUp", "VolDown", "Power", "A"}

KeyEvents == {<<t, k>> : t \in {"Pressed", "Released", "Autorepeat"}, k \in Keys}

Signals == {"hangup", "interrupt", "quit", "terminate"}

\* is_menu_pressed after the chord bookkeeping at the head of handle_key_event
MenuPressed(e, pressed) == IF e = <<"Pressed", "Menu">> THEN TRUE ELSE pressed

\* the bookkeeping with its else-if arm lost: other keys do not clear the flag
MenuPressedAlone_sticky(e, alone) ==
    IF e = <<"Pressed", "Menu">> THEN TRUE ELSE alone

\* is_menu_pressed_alone after the chord bookkeeping
MenuPressedAlone(e, alone) ==
    IF e = <<"Pressed", "Menu">> THEN TRUE
    ELSE IF e # <<"Released", "Menu">> THEN FALSE
    ELSE alone

\* the arms of the match that adjust volume or brightness
IsVolumeKey(e) == e[1] \in {"Pressed", "Autorepeat"} /\ e[2] \in {"VolUp", "VolDown"}

\* the delta each arm passes to add_volume; add_brightness gets five times it
VolumeStep(e) == IF e[2] = "VolUp" THEN 1 ELSE -1

\* the brightness arm passing the volume step
BrightnessStep_as_volume(e) == VolumeStep(e)

BrightnessStep(e) == IF e[2] = "VolUp" THEN 5 ELSE -5

\* the toggle allowed whenever a menu is open, in a game or not
TogglesMenu_by_menu_slot(ingame, alone) == alone /\ (ingame \/ menu # None)

\* the toggle without its is_ingame() test
TogglesMenu_not_gated(ingame, alone) == alone

\* the Released(Menu) arm toggles the menu
TogglesMenu(ingame, alone) == ingame /\ alone

\* a save() that leaves the file as it is
save_nothing == stateFile

\* save(): File::create, then write_all of the serialized record
save == Some(Serialize(volume, brightness))

\* update_play_time(): the interval since start_time is in the database
\* once add_play_time has been called for it
play_time_recorded(ingame, rec) == ingame \/ rec

\* update_play_time without its early return
update_play_time_always(ingame) == <<<<"add_play_time", "database">>>>

\* update_play_time(): the calls it makes; it returns early when not in a game
update_play_time(ingame) ==
    IF ingame THEN <<<<"add_play_time", "database">>>> ELSE <<>>

\* the main-exit branch without its test of is_terminating
main_after_exit_always_respawn(child, gi, terminating, spawn_ok) == spawn_main(gi)

\* the main-exit branch without `self.main = spawn_main()`
main_after_exit_no_respawn(child, gi, terminating, spawn_ok) == Waited(child)

\* self.main after the main-exit branch: respawned unless terminating
main_after_exit(child, gi, terminating, spawn_ok) ==
    IF ~terminating /\ spawn_ok THEN spawn_main(gi) ELSE Waited(child)

\* a failed spawn that is logged and passed over
after_spawn_ignored(spawn_ok) == "wait"

\* where the daemon is after a spawn: `?` and unwrap() end its run on failure
after_spawn(spawn_ok) == IF spawn_ok THEN "wait" ELSE "aborted"

\* a GameInfo::delete() that leaves the file
delete_game_info_kept(gi) == gi

\* GameInfo::delete(): the file is gone
delete_game_info(gi) == FALSE

\* platform.set_volume(v): the hardware h has the volume v
set_volume(h, v) == [h EXCEPT !.volume = v]

\* a set_brightness that does not reach the hardware
set_brightness_dropped(h, b) == h

\* platform.set_brightness(b): the hardware h has the brightness b
set_brightness(h, b) == [h EXCEPT !.brightness = b]

\* self.add_volume(add)?: the sum, the clamp, the write to the hardware
AddVolume(add) ==
    \E r \in add_volume(volume, add) :
        /\ volume' = r.value
        /\ brightness' = brightness
        /\ pc' = IF r.panic THEN "aborted" ELSE "wait"
        /\ hw' = IF r.panic THEN hw ELSE set_volume(hw, r.value)
        /\ trace' = IF r.panic THEN <<>> ELSE <<<<"set_volume", "platform">>>>

\* self.add_brightness(add)?
AddBrightness(add) ==
    \E r \in add_brightness(brightness, add) :
        /\ brightness' = r.value
        /\ volume' = volume
        /\ pc' = IF r.panic THEN "aborted" ELSE "wait"
        /\ hw' = IF r.panic THEN hw ELSE set_brightness(hw, r.value)
        /\ trace' = IF r.panic THEN <<>> ELSE <<<<"set_brightness", "platform">>>>

\* Pressed/Autorepeat of VolUp/VolDown
KeyVolume(e) ==
    /\ IsVolumeKey(e)
    /\ adjusts < MaxAdjust
    /\ adjusts' = adjusts + 1
    /\ is_menu_pressed' = MenuPressed(e, is_menu_pressed)
    /\ is_menu_pressed_alone' = MenuPressedAlone(e, is_menu_pressed_alone)
    /\ IF is_menu_pressed'
       THEN AddBrightness(BrightnessStep(e))
       ELSE AddVolume(VolumeStep(e))
    /\ UNCHANGED <<stateFile, gameInfo, main, orphans, menu, is_terminating, delta,
                   recorded, launcher>>

\* Autorepeat(Power): the power-off sequence.  exec_ok: exec of poweroff
\* replaces the process image; when it fails exec returns and so does the arm.
KeyPower(e, spawn_ok, exec_ok) ==
    /\ e = <<"Autorepeat", "Power">>
    /\ is_menu_pressed' = MenuPressed(e, is_menu_pressed)
    /\ is_menu_pressed_alone' = MenuPressedAlone(e, is_menu_pressed_alone)
    /\ is_terminating' = TRUE
    /\ stateFile' = save
    /\ LET m1 == IF menu # None THEN signal(main, "CONT") ELSE main
           m2 == signal(m1, "TERM")
           sent == (IF menu # None THEN signalled(main, "CONT", "main") ELSE <<>>)
                   \o signalled(m1, "TERM", "main")
           rest == update_play_time(is_ingame)
                   \o <<<<"spawn", "sync">>>>
                   \o (IF spawn_ok THEN <<<<"exec", "poweroff">>>> ELSE <<>>)
           done == IF ~spawn_ok THEN "aborted"
                   ELSE IF exec_ok THEN "poweroff" ELSE "wait"
       IN IF ~is_ingame
          THEN /\ main' = main
               /\ trace' = <<<<"save", "state">>>> \o rest
               /\ pc' = done
               /\ recorded' = play_time_recorded(is_ingame, recorded)
          ELSE IF Exited(m2)
          THEN /\ main' = Waited(m2)
               /\ trace' = <<<<"save", "state">>>> \o sent \o <<<<"wait", "main">>>> \o rest
               /\ pc' = done
               /\ recorded' = play_time_recorded(is_ingame, recorded)
          ELSE \* TERM is pending on a stopped main: main.wait() never returns
               /\ main' = m2
               /\ trace' = <<<<"save", "state">>>> \o sent
               /\ pc' = "hung"
               /\ recorded' = recorded
    /\ UNCHANGED <<gameInfo, orphans, menu, volume, brightness, hw, adjusts, delta,
                   launcher>>

\* Released(Menu): the menu toggle
KeyMenuReleased(e, spawn_ok) ==
    /\ e = <<"Released", "Menu">>
    /\ is_menu_pressed' = FALSE
    /\ LET alone == MenuPressedAlone(e, is_menu_pressed_alone)
       IN IF TogglesMenu(is_ingame, alone)
          THEN /\ is_menu_pressed_alone' = FALSE
               /\ IF menu # None
                  THEN \* terminate(menu): TERM, then wait for its exit
                       /\ menu' = Some(Waited(signal(menu[1], "TERM")))
                       /\ trace' = signalled(menu[1], "TERM", "menu")
                                   \o <<<<"wait", "menu">>>>
                       /\ main' = main
                       /\ pc' = "wait"
                  ELSE /\ main' = signal(main, "STOP")
                       /\ trace' = signalled(main, "STOP", "main")
                                   \o <<<<"spawn", "menu">>>>
                       /\ menu' = IF spawn_ok THEN Some(Spawn("menu")) ELSE menu
                       /\ pc' = after_spawn(spawn_ok)
          ELSE /\ is_menu_pressed_alone' = alone
               /\ trace' = <<>>
               /\ UNCHANGED <<main, menu, pc>>
    /\ UNCHANGED <<stateFile, gameInfo, orphans, is_terminating, volume,
                   brightness, hw, adjusts, delta, recorded, launcher>>

\* every other key event: the chord bookkeeping alone
KeyOther(e) ==
    /\ ~IsVolumeKey(e)
    /\ e # <<"Autorepeat", "Power">>
    /\ e # <<"Released", "Menu">>
    /\ is_menu_pressed' = MenuPressed(e, is_menu_pressed)
    /\ is_menu_pressed_alone' = MenuPressedAlone(e, is_menu_pressed_alone)
    /\ trace' = <<>>
    /\ UNCHANGED <<pc, stateFile, gameInfo, main, orphans, menu, is_terminating,
                   volume, brightness, hw, adjusts, delta, recorded, launcher>>

\* key_event = self.platform.poll() => self.handle_key_event(key_event)
HandleKeyEvent(e, spawn_ok, exec_ok) ==
    /\ pc = "wait"
    /\ ev' = "key"
    /\ last_key' = e
    /\ \/ KeyVolume(e)
       \/ KeyPower(e, spawn_ok, exec_ok)
       \/ KeyMenuReleased(e, spawn_ok)
       \/ KeyOther(e)

\* _ = self.main.wait() => ...
MainExited(spawn_ok) ==
    /\ pc = "wait"
    /\ Exited(main)
    /\ ev' = "main_exit"
    /\ IF ~is_terminating
       THEN /\ gameInfo' = delete_game_info(gameInfo)
            /\ trace' = update_play_time(is_ingame)
                        \o <<<<"delete", "game_info">>>>
                        \o spawn_main_calls(gameInfo')
            /\ pc' = after_spawn(spawn_ok)
            /\ recorded' = start_time_reset(gameInfo',
                                gameInfo' /\ play_time_recorded(is_ingame, recorded))
       ELSE /\ trace' = <<>>
            /\ UNCHANGED <<gameInfo, pc, recorded>>
    /\ main' = main_after_exit(main, gameInfo', is_terminating, spawn_ok)
    /\ UNCHANGED <<stateFile, orphans, menu, is_menu_pressed, is_menu_pressed_alone,
                   is_terminating, volume, brightness, hw, last_key, adjusts, delta,
                   launcher>>

\* a menu_terminated that is ready at once when there is no menu
menu_terminated_without_fuse == menu = None \/ Exited(menu[1])

\* menu_terminated is ready: menu.wait() of the child in the slot has
\* returned; Fuse::terminated(), taken when the slot is None, never is
menu_terminated == menu # None /\ Exited(menu[1])

\* _ = menu_terminated => ...
MenuExited ==
    /\ pc = "wait"
    /\ menu_terminated
    /\ ev' = "menu_exit"
    /\ menu' = None
    /\ main' = signal(main, "CONT")
    /\ trace' = signalled(main, "CONT", "main")
    /\ UNCHANGED <<pc, stateFile, gameInfo, orphans, is_menu_pressed,
                   is_menu_pressed_alone, is_terminating, volume, brightness, hw,
                   last_key, adjusts, delta, recorded, launcher>>

\* _ = sighup.recv() => self.handle_quit() and its three siblings
HandleQuit(sig) ==
    /\ pc = "wait"
    /\ sig \in Signals
    /\ ev' = "signal"
    /\ stateFile' = save
    /\ trace' = <<<<"save", "state">>>>
    /\ UNCHANGED <<pc, gameInfo, main, orphans, menu, is_menu_pressed,
                   is_menu_pressed_alone, is_terminating, volume, brightness, hw,
                   last_key, adjusts, delta, recorded, launcher>>

-----------------------------------------------------------------------------
(* The environment: the children run on their own.                         *)

\* the main process exits (the game is quit, the launcher dies)
MainProcExits ==
    /\ pc = "wait"
    /\ main.state = "running"
    /\ main' = [main EXCEPT !.state = "zombie"]
    /\ ev' = "env"
    /\ trace' = <<>>
    /\ UNCHANGED <<pc, stateFile, gameInfo, orphans, menu, is_menu_pressed,
                   is_menu_pressed_alone, is_terminating, volume, brightness, hw,
                   last_key, adjusts, delta, recorded, launcher>>

\* the launcher writes GameInfo and replaces itself by the game it launches
LauncherStartsGame ==
    /\ pc = "wait"
    /\ main.state = "running"
    /\ main.prog = "launcher"
    /\ ~gameInfo
    /\ gameInfo' = TRUE
    /\ main' = [main EXCEPT !.prog = "game"]
    /\ recorded' = FALSE
    /\ ev' = "env"
    /\ trace' = <<>>
    /\ UNCHANGED <<pc, stateFile, orphans, menu, is_menu_pressed,
                   is_menu_pressed_alone, is_terminating, volume, brightness, hw,
                   last_key, adjusts, delta, launcher>>

\* the menu process exits by itself
MenuProcExits ==
    /\ pc = "wait"
    /\ menu # None
    /\ menu[1].state = "running"
    /\ menu' = Some([menu[1] EXCEPT !.state = "zombie"])
    /\ ev' = "env"
    /\ trace' = <<>>
    /\ UNCHANGED <<pc, stateFile, gameInfo, main, orphans, is_menu_pressed,
                   is_menu_pressed_alone, is_terminating, volume, brightness, hw,
                   last_key, adjusts, delta, recorded, launcher>>

-----------------------------------------------------------------------------
(* Spec: the daemon on the device.  Spawns succeed and poweroff is there   *)
(* to be exec'ed.                                                          *)

\* a settings file cut off inside the brightness field
Truncated(v) == [volume |-> FormatInt(v), brightness |-> <<>>, tail |-> <<>>]

\* what the daemon's own save() can have left at ALLIUMD_STATE
OwnFiles == {None, Some(Serialize(20, 100)), Some(Truncated(7))}

Init == Boot(OwnFiles)

Next ==
    \/ Load(TRUE)
    \/ RunEventLoopEnter
    \/ \E e \in KeyEvents : HandleKeyEvent(e, TRUE, TRUE)
    \/ MainExited(TRUE)
    \/ MenuExited
    \/ \E sig \in Signals : HandleQuit(sig)
    \/ MainProcExits
    \/ LauncherStartsGame
    \/ MenuProcExits

Spec == Init /\ [][Next]_vars

\* select! polls its branches in random order: a branch that stays ready
\* is taken eventually
FairSpec == Spec /\ WF_vars(MenuExited) /\ WF_vars(MainExited(TRUE))

-----------------------------------------------------------------------------
(* SpecOffDevice: the daemon where poweroff cannot be exec'ed.  exec       *)
(* returns, its error is dropped, and the loop goes on with is_terminating *)
(* set.                                                                    *)

PowerOffExecFails == HandleKeyEvent(<<"Autorepeat", "Power">>, TRUE, FALSE)

NextOffDevice == Next \/ PowerOffExecFails

SpecOffDevice == Init /\ [][NextOffDevice]_vars

-----------------------------------------------------------------------------
(* SpecSpawnFail: the daemon where Command::spawn can fail (no memory, no  *)
(* binary): at startup, at the respawn of main, at the spawn of the menu   *)
(* or of sync.                                                             *)

LoadSpawnFails == Load(FALSE)

KeySpawnFails == \E e \in KeyEvents : HandleKeyEvent(e, FALSE, TRUE)

MainExitedSpawnFails == MainExited(FALSE)

NextSpawnFail == Next \/ LoadSpawnFails \/ KeySpawnFails \/ MainExitedSpawnFails

SpecSpawnFail == Init /\ [][NextSpawnFail]_vars

-----------------------------------------------------------------------------
(* SpecAdd: add_volume and add_brightness called directly, with deltas the *)
(* key handler never passes, from every in-range record.                   *)

\* a daemon at its top-level wait with the settings (v, b), outside a game
Running(v, b) ==
    /\ pc = "wait"
    /\ volume = v
    /\ brightness = b
    /\ main = spawn_main(gameInfo)
    /\ orphans = 0
    /\ menu = None
    /\ is_menu_pressed = FALSE
    /\ is_menu_pressed_alone = FALSE
    /\ is_terminating = FALSE
    /\ hw = [volume |-> v, brightness |-> b]
    /\ ev = "start"
    /\ last_key = <<>>
    /\ trace = <<>>
    /\ adjusts = 0
    /\ delta = 0
    /\ recorded = FALSE
    /\ launcher = NoLauncher

\* i32 deltas: the ends of the type, the steps of the keys, past the range
Deltas32 == {I32Min, -21, -1, 0, 1, 21, I32Max}

\* i8 deltas: the ends of the type, the steps of the keys, past the range
Deltas8 == {I8Min, -101, -5, 0, 5, 28, 101, I8Max}

AddVolumeCall(d) ==
    /\ pc = "wait"
    /\ d \in Deltas32
    /\ AddVolume(d)
    /\ ev' = "add_volume"
    /\ delta' = d
    /\ UNCHANGED <<stateFile, gameInfo, main, orphans, menu, is_menu_pressed,
                   is_menu_pressed_alone, is_terminating, last_key, adjusts,
                   recorded, launcher>>

AddBrightnessCall(d) ==
    /\ pc = "wait"
    /\ d \in Deltas8
    /\ AddBrightness(d)
    /\ ev' = "add_brightness"
    /\ delta' = d
    /\ UNCHANGED <<stateFile, gameInfo, main, orphans, menu, is_menu_pressed,
                   is_menu_pressed_alone, is_terminating, last_key, adjusts,
                   recorded, launcher>>

InitAdd ==
    /\ stateFile = None
    /\ gameInfo = FALSE
    /\ \E v \in 0..20, b \in 0..100 : Running(v, b)

NextAdd ==
    \/ \E d \in Deltas32 : AddVolumeCall(d)
    \/ \E d \in Deltas8 : AddBrightnessCall(d)

SpecAdd == InitAdd /\ [][NextAdd]_vars

-----------------------------------------------------------------------------
(* SpecPersist: save() and load() across a reboot, from every in-range     *)
(* record and with settings files of any content.                          *)

\* a snapshot followed by more text
WithTail(v, b) == [Serialize(v, b) EXCEPT !.tail = <<"x">>]

\* bytes that are no JSON (or no UTF-8: read_to_string fails and load()
\* goes the same way as for text that does not parse)
Garbage == [volume |-> <<"x">>, brightness |-> <<"?">>, tail |-> <<"x">>]

\* a file of no bytes
EmptyText == [volume |-> <<>>, brightness |-> <<>>, tail |-> <<>>]

\* settings files the daemon did not write: numbers outside the ranges,
\* a number that is no u8, text after the object, a cut-off object,
\* bytes that are no JSON, no bytes
ForeignFiles ==
    {None, Some(Truncated(7)), Some(Serialize(1000, 200)), Some(Serialize(-3, 101)),
     Some(Serialize(21, 125)), Some(Serialize(5, 256)), Some(WithTail(5, 60)),
     Some(Garbage), Some(EmptyText)}

\* the daemon process and its children are gone and the daemon is started
\* again: the state of Boot
Restarted ==
    /\ pc' = "boot"
    /\ main' = NoChild
    /\ orphans' = 0
    /\ menu' = None
    /\ is_menu_pressed' = FALSE
    /\ is_menu_pressed_alone' = FALSE
    /\ is_terminating' = FALSE
    /\ volume' = 0
    /\ brightness' = 0
    /\ hw' = [volume |-> -1, brightness |-> -1]
    /\ ev' = "boot"
    /\ last_key' = <<>>
    /\ trace' = <<>>
    /\ UNCHANGED <<gameInfo, adjusts, delta, recorded, launcher>>

\* the device restarts: every process is gone, the files stay
Reboot ==
    /\ pc # "boot"
    /\ Restarted
    /\ UNCHANGED stateFile

InitPersist ==
    /\ stateFile \in ForeignFiles
    /\ gameInfo \in BOOLEAN
    /\ \E v \in 0..20, b \in 0..100 : Running(v, b)

NextPersist ==
    \/ \E sig \in Signals : HandleQuit(sig)
    \/ Reboot
    \/ Load(TRUE)
    \/ RunEventLoopEnter

SpecPersist == InitPersist /\ [][NextPersist]_vars

-----------------------------------------------------------------------------
(* SpecCrash: SpecPersist where the device can lose power while save()     *)
(* runs.  save() is File::create, which empties the file, and then         *)
(* write_all, which writes the text piece by piece.                        *)

\* power is lost inside the save() of handle_quit: before File::create,
\* after it, inside write_all, or after write_all
SaveInterrupted ==
    /\ pc = "wait"
    /\ stateFile' \in {stateFile, Some(EmptyText), Some(Truncated(volume)), save}
    /\ Restarted

NextCrash == NextPersist \/ SaveInterrupted

SpecCrash == InitPersist /\ [][NextCrash]_vars

-----------------------------------------------------------------------------
(* Properties of the supervisor.                                           *)

PressedMenu == <<"Pressed", "Menu">>

ReleasedMenu == <<"Released", "Menu">>

PressedVolUp == <<"Pressed", "VolUp">>

\* main has been sent STOP, has not been sent CONT since, and is not a
\* process spawned after that
MainStopped == main.sig = "STOPPED"

\* C1: at every top-level wait, if the menu slot holds a child then main is
\* in signal-state STOPPED.
C1_MenuOnlyWhileMainStopped ==
    (pc = "wait" /\ menu # None) => MainStopped

\* C2 as stated: a main exit handled with is_terminating false makes exactly
\* one spawn_main call and exactly one add_play_time call; handled with
\* is_terminating true it makes none of either.
C2_OneRespawnOnePlayTime ==
    ev = "main_exit" =>
        IF ~is_terminating
        THEN /\ SpawnMainCount(trace) = 1
             /\ Count(trace, <<"add_play_time", "database">>) = 1
        ELSE /\ SpawnMainCount(trace) = 0
             /\ Count(trace, <<"add_play_time", "database">>) = 0

\* C2 amended: a main exit handled with is_terminating false makes exactly
\* one spawn_main call, and one add_play_time call if GameInfo exists when
\* it is handled and none if it does not; handled with is_terminating true
\* it makes no spawn_main call and no add_play_time call.
C2_OneRespawnPlayTimeIfInGame ==
    [][ (pc = "wait" /\ Exited(main) /\ ev' = "main_exit") =>
            IF ~is_terminating
            THEN /\ SpawnMainCount(trace') = 1
                 /\ Count(trace', <<"add_play_time", "database">>)
                        = (IF gameInfo THEN 1 ELSE 0)
            ELSE /\ SpawnMainCount(trace') = 0
                 /\ Count(trace', <<"add_play_time", "database">>) = 0
      ]_vars

\* a main exit was handled while in a game and not terminating
C2_Witness ==
    /\ ev = "main_exit"
    /\ ~is_terminating
    /\ trace = <<<<"add_play_time", "database">>, <<"delete", "game_info">>,
                 <<"spawn", "launcher">>>>

C4_ChordOpensMenu ==
    [][ (/\ pc = "wait"
         /\ ev' = "key"
         /\ last_key = PressedMenu
         /\ last_key' = ReleasedMenu
         /\ gameInfo
         /\ menu = None) =>
            /\ trace' = <<<<"STOP", "main">>, <<"spawn", "menu">>>>
            /\ menu' = Some(Spawn("menu"))
            /\ MainStopped'
            /\ (main.state = "running" => main'.state = "stopped")
            /\ pc' = "wait"
      ]_vars

\* the menu was opened over a running game by the chord
C4_Witness ==
    /\ pc = "wait"
    /\ ev = "key"
    /\ last_key = ReleasedMenu
    /\ trace = <<<<"STOP", "main">>, <<"spawn", "menu">>>>
    /\ menu = Some(Spawn("menu"))
    /\ main.state = "stopped"
    /\ main.prog = "game"

\* Released(Menu) has sent the menu TERM and waited for its exit
MenuClosing ==
    /\ pc = "wait"
    /\ ev = "key"
    /\ last_key = ReleasedMenu
    /\ trace # <<>>
    /\ trace[Len(trace)] = <<"wait", "menu">>

\* the menu-exit branch has cleared the slot and sent CONT to main
MenuClosed ==
    /\ ev = "menu_exit"
    /\ menu = None
    /\ trace = <<<<"CONT", "main">>>>
    /\ main.sig = "RUNNING"

\* C5: in a game with the menu slot Some, Released(Menu) right after
\* Pressed(Menu) sends the menu TERM and waits for its exit; the menu-exit
\* branch then clears the slot and sends CONT to main, resuming a stopped
\* main; and once the menu has been closed this way that branch is taken,
\* unless the daemon is powered off first.
C5_ChordClosesMenu ==
    /\ [][ /\ (/\ pc = "wait"
               /\ ev' = "key"
               /\ last_key = PressedMenu
               /\ last_key' = ReleasedMenu
               /\ gameInfo
               /\ menu # None) =>
                  /\ MenuClosing'
                  /\ (menu[1].state = "running" =>
                          trace' = <<<<"TERM", "menu">>, <<"wait", "menu">>>>)
                  /\ menu' = Some(Waited(menu[1]))
                  /\ main' = main
           /\ (pc = "wait" /\ menu # None /\ ev' = "menu_exit") =>
                  /\ MenuClosed'
                  /\ (main.state = "stopped" => main'.state = "running")
         ]_vars
    /\ (MenuClosing ~> (MenuClosed \/ pc # "wait"))

\* the chord closed a menu that was running over a stopped game
C5_Witness ==
    /\ MenuClosing
    /\ trace = <<<<"TERM", "menu">>, <<"wait", "menu">>>>
    /\ gameInfo
    /\ main.state = "stopped"

\* C6: in a game, Pressed(VolUp) right after Pressed(Menu) raises brightness
\* by 5 (up to 100), leaves volume alone and touches no child; the
\* Released(Menu) that follows it sends no signal, spawns and terminates
\* nothing and leaves the menu slot, volume and brightness as they are.
C6_ChordOverride ==
    [][ /\ (/\ pc = "wait"
            /\ ev' = "key"
            /\ gameInfo
            /\ last_key = PressedMenu
            /\ last_key' = PressedVolUp) =>
               /\ brightness' = (IF brightness + 5 > 100 THEN 100 ELSE brightness + 5)
               /\ volume' = volume
               /\ trace' = <<<<"set_brightness", "platform">>>>
               /\ menu' = menu
               /\ main' = main
        /\ (/\ pc = "wait"
            /\ ev' = "key"
            /\ gameInfo
            /\ last_key = PressedVolUp
            /\ last_key' = ReleasedMenu) =>
               /\ trace' = <<>>
               /\ menu' = menu
               /\ main' = main
               /\ volume' = volume
               /\ brightness' = brightness
      ]_vars

\* Menu is held in a game and VolUp has just raised the brightness from 50
C6_Witness ==
    /\ pc = "wait"
    /\ ev = "key"
    /\ last_key = PressedVolUp
    /\ is_menu_pressed
    /\ ~is_menu_pressed_alone
    /\ gameInfo
    /\ brightness = 55
    /\ volume = 0
    /\ trace = <<<<"set_brightness", "platform">>>>

\* C7: a key event handled while GameInfo does not exist spawns no menu,
\* sends no STOP to main and leaves the menu slot and main as they are.
C7_InGameGating ==
    [][ (pc = "wait" /\ ev' = "key" /\ ~gameInfo) =>
            /\ Count(trace', <<"spawn", "menu">>) = 0
            /\ Count(trace', <<"STOP", "main">>) = 0
            /\ menu' = menu
            /\ main' = main
      ]_vars

\* Menu was pressed and released alone outside a game: nothing was toggled
\* (the alone flag is only cleared by a toggle, so it is still set)
C7_Witness ==
    /\ pc = "wait"
    /\ ev = "key"
    /\ last_key = ReleasedMenu
    /\ is_menu_pressed_alone
    /\ ~is_menu_pressed
    /\ ~gameInfo
    /\ menu = None
    /\ trace = <<>>

-----------------------------------------------------------------------------
(* Properties of the settings.                                             *)

\* min(hi, max(0, x + d)) for x in 0..hi, without forming x + d
Saturated(x, d, hi) ==
    IF d >= hi - x THEN hi ELSE IF d <= -x THEN 0 ELSE x + d

\* C8: whenever the daemon is loaded or running its loop, volume is in
\* [0,20] and brightness is in [0,100].
C8_SettingsInRange ==
    pc \in {"loaded", "wait"} => (volume \in 0..20 /\ brightness \in 0..100)

\* C9: from an in-range value, add_volume(d) returns with volume set to
\* min(20, max(0, volume + d)) and add_brightness(d) returns with brightness
\* set to min(100, max(0, brightness + d)), for every delta of the type.
C9_ExactSaturatingAdd ==
    [][ /\ (pc = "wait" /\ ev' = "add_volume") =>
               /\ pc' = "wait"
               /\ volume' = Saturated(volume, delta', 20)
        /\ (pc = "wait" /\ ev' = "add_brightness") =>
               /\ pc' = "wait"
               /\ brightness' = Saturated(brightness, delta', 100)
      ]_vars

\* C10: load() of the file that save() writes for a volume in [0,20] and a
\* brightness in [0,100] returns a daemon with that volume and brightness,
\* keeps the file, and has the menu slot and the flags at their defaults.
C10_SaveLoadRoundTrip ==
    [][ (pc = "boot" /\ ev' = "load" /\ stateFile # None) =>
            \A v \in 0..20, b \in 0..100 :
                stateFile = Some(Serialize(v, b)) =>
                    /\ pc' = "loaded"
                    /\ volume' = v
                    /\ brightness' = b
                    /\ stateFile' = stateFile
                    /\ menu' = None
                    /\ ~is_menu_pressed'
                    /\ ~is_menu_pressed_alone'
                    /\ ~is_terminating'
      ]_vars

\* the record (20, 100) was saved, the device rebooted, and load() read it
C10_Witness ==
    /\ pc = "loaded"
    /\ ev = "load"
    /\ stateFile = Some(Serialize(20, 100))
    /\ volume = 20
    /\ brightness = 100

-----------------------------------------------------------------------------
(* Properties of load().                                                   *)

\* settings files that cannot be read or parsed
CorruptFiles ==
    {Some(Truncated(7)), Some(Serialize(5, 256)), Some(WithTail(5, 60)),
     Some(Garbage), Some(EmptyText)}

RemoveFile == <<"remove_file", "state">>

\* C11: load() of a settings file that cannot be read or parsed returns a
\* daemon with volume 0 and brightness 50 and removes the file; the failure
\* to parse does not end load().
C11_CorruptFileGivesDefaults ==
    [][ (pc = "boot" /\ ev' = "load" /\ stateFile \in CorruptFiles) =>
            /\ pc' = "loaded"
            /\ volume' = 0
            /\ brightness' = 50
            /\ stateFile' = None
            /\ Count(trace', RemoveFile) = 1
      ]_vars

\* load() has gone through a file with text after the object: the file is
\* gone and the defaults are in place
C11_Witness ==
    /\ pc = "loaded"
    /\ ev = "load"
    /\ stateFile = None
    /\ Count(trace, RemoveFile) = 1
    /\ orphans = 1
    /\ volume = 0
    /\ brightness = 50

\* C12: load() with no settings file returns a daemon with volume 0 and
\* brightness 50, no menu, both chord flags and is_terminating false; it
\* creates no settings file and removes none.
C12_MissingFileGivesDefaults ==
    [][ (pc = "boot" /\ ev' = "load" /\ stateFile = None) =>
            /\ pc' = "loaded"
            /\ volume' = 0
            /\ brightness' = 50
            /\ menu' = None
            /\ ~is_menu_pressed'
            /\ ~is_menu_pressed_alone'
            /\ ~is_terminating'
            /\ stateFile' = None
            /\ Count(trace', RemoveFile) = 0
      ]_vars

\* load() has run with no file at all
C12_Witness ==
    /\ pc = "loaded"
    /\ ev = "load"
    /\ stateFile = None
    /\ Count(trace, RemoveFile) = 0
    /\ volume = 0
    /\ brightness = 50
    /\ main.state = "running"

-----------------------------------------------------------------------------
(* Properties of save().                                                   *)

\* C13: when a key handler that changed volume or brightness has finished,
\* the settings file holds the current volume and brightness.
C13_SavedAfterEveryChange ==
    [][ (ev' = "key" /\ (volume' # volume \/ brightness' # brightness)) =>
            stateFile' = Some(Serialize(volume', brightness'))
      ]_vars

\* C14: when the daemon stops at any point of a save(), the settings file
\* afterwards is the whole previous snapshot or the whole new one.
C14_AtomicSave ==
    [][ (pc = "wait" /\ pc' = "boot") =>
            stateFile' \in {stateFile, Some(Serialize(volume, brightness))}
      ]_vars

\* C15: the handler of hangup, interrupt, quit and terminate writes the
\* current volume and brightness to the settings file and nothing else: the
\* main handle, the menu slot, the chord flags, is_terminating and the
\* settings are unchanged, no child is signalled, and the loop is back at
\* its top-level wait.
C15_SignalSavesAndContinues ==
    [][ ev' = "signal" =>
            /\ stateFile' = Some(Serialize(volume, brightness))
            /\ trace' = <<<<"save", "state">>>>
            /\ pc' = "wait"
            /\ UNCHANGED <<main, menu, is_menu_pressed, is_menu_pressed_alone,
                           is_terminating, volume, brightness, gameInfo>>
      ]_vars

\* a signal was handled with the menu open and a volume set by key: the
\* file holds that volume and the menu is still there
C15_Witness ==
    /\ ev = "signal"
    /\ pc = "wait"
    /\ menu # None
    /\ MainStopped
    /\ volume = 1
    /\ stateFile = Some(Serialize(1, 50))

-----------------------------------------------------------------------------
(* Properties of the power-off sequence.                                   *)

AutorepeatPower == <<"Autorepeat", "Power">>

ContMain == <<"CONT", "main">>

TermMain == <<"TERM", "main">>

ExecPowerOff == <<"exec", "poweroff">>

\* the calls of the power-off sequence, in order
PowerOffCalls(ingame, menu_open) ==
    <<<<"save", "state">>>>
    \o (IF ingame
        THEN (IF menu_open THEN <<ContMain>> ELSE <<>>)
             \o <<TermMain, <<"wait", "main">>, <<"add_play_time", "database">>>>
        ELSE <<>>)
    \o <<<<"spawn", "sync">>, ExecPowerOff>>

\* C16: Autorepeat(Power) sets is_terminating, saves the settings, then,
\* if GameInfo exists, sends CONT to main when the menu is open (main is
\* stopped), sends TERM to main, waits for its exit and records the play
\* time, then starts sync and execs poweroff; without GameInfo main gets no
\* signal and no play time is recorded.  No other key event sets
\* is_terminating, saves, signals main with TERM or execs poweroff.
C16_PowerOffOrder ==
    [][ ev' = "key" =>
            IF last_key' = AutorepeatPower
            THEN /\ is_terminating'
                 /\ stateFile' = Some(Serialize(volume, brightness))
                 /\ trace' = PowerOffCalls(gameInfo, menu # None)
                 /\ (gameInfo /\ MainStopped) => Count(trace', ContMain) = 1
                 /\ pc' = "poweroff"
            ELSE /\ is_terminating' = is_terminating
                 /\ stateFile' = stateFile
                 /\ Count(trace', ExecPowerOff) = 0
                 /\ Count(trace', TermMain) = 0
                 /\ pc' # "poweroff"
      ]_vars

\* power-off in a game with the menu open: the whole sequence has run
C16_Witness ==
    /\ pc = "poweroff"
    /\ last_key = AutorepeatPower
    /\ is_terminating
    /\ trace = PowerOffCalls(TRUE, TRUE)
    /\ main.state = "reaped"

\* C17: once the Autorepeat(Power) handler has run the loop dispatches no
\* further event: the daemon is never at its top-level wait with
\* is_terminating set.
C17_PowerOffEndsDaemon ==
    is_terminating => pc # "wait"

-----------------------------------------------------------------------------
(* Properties of the key handler's chords.                                 *)

\* C18: a Pressed or Autorepeat event of VolUp / VolDown passes +5 / -5 to
\* add_brightness and leaves volume alone when is_menu_pressed is true, and
\* passes +1 / -1 to add_volume and leaves brightness alone otherwise (the
\* values stay within [0,100] and [0,20]); no other key event changes
\* volume or brightness.
C18_VolumeKeysRouting ==
    [][ ev' = "key" =>
            LET e == last_key'
                up == e[2] = "VolUp"
            IN IF e[1] \in {"Pressed", "Autorepeat"} /\ e[2] \in {"VolUp", "VolDown"}
               THEN IF is_menu_pressed
                    THEN /\ brightness' =
                                Saturated(brightness, IF up THEN 5 ELSE -5, 100)
                         /\ volume' = volume
                         /\ pc' = "wait"
                    ELSE /\ volume' = Saturated(volume, IF up THEN 1 ELSE -1, 20)
                         /\ brightness' = brightness
                         /\ pc' = "wait"
               ELSE /\ volume' = volume
                    /\ brightness' = brightness
      ]_vars

\* with Menu held, Pressed(VolDown) and its Autorepeat have lowered the
\* brightness twice; the volume is as it was
C18_Witness ==
    /\ ev = "key"
    /\ last_key = <<"Autorepeat", "VolDown">>
    /\ is_menu_pressed
    /\ brightness = 40
    /\ volume = 0
    /\ hw = [volume |-> 0, brightness |-> 40]

\* C19: after Pressed(Menu), is_menu_pressed_alone stays true through every
\* Menu-key event short of the release; only events of other keys clear it.
C19_MenuEventsKeepAlone ==
    [][ (/\ ev' = "key"
         /\ is_menu_pressed_alone
         /\ last_key'[2] = "Menu"
         /\ last_key'[1] # "Released") => is_menu_pressed_alone'
      ]_vars

-----------------------------------------------------------------------------
(* Properties of spawn_main.                                               *)

StartTime == <<"start_time", "game_info">>

SpawnGame == <<"spawn", "game">>

SpawnLauncher == <<"spawn", "launcher">>

\* C20: at startup main is the game when GameInfo exists, with start_time
\* saved right before each spawn, and the launcher when it does not; the
\* main-exit handler deletes GameInfo before it respawns, so that respawn
\* is the launcher; a game is spawned by the daemon at startup only.
C20_SpawnMainFromGameInfo ==
    [][ /\ ev' = "load" =>
               IF gameInfo
               THEN /\ main'.prog = "game"
                    /\ Count(trace', SpawnGame) >= 1
                    /\ Count(trace', SpawnLauncher) = 0
                    /\ \A i \in 1..Len(trace') :
                           trace'[i] = SpawnGame =>
                               (i > 1 /\ trace'[i - 1] = StartTime)
               ELSE /\ main'.prog = "launcher"
                    /\ Count(trace', SpawnLauncher) >= 1
                    /\ Count(trace', SpawnGame) = 0
                    /\ Count(trace', StartTime) = 0
        /\ (ev' = "main_exit" /\ ~is_terminating) =>
               /\ ~gameInfo'
               /\ main' = Spawn("launcher")
               /\ Len(trace') >= 2
               /\ trace'[Len(trace') - 1] = <<"delete", "game_info">>
               /\ trace'[Len(trace')] = SpawnLauncher
               /\ Count(trace', SpawnGame) = 0
        /\ Count(trace', SpawnGame) > 0 => ev' = "load"
      ]_vars

\* the daemon has started with GameInfo present and resumed the game
C20_Witness ==
    /\ ev = "load"
    /\ gameInfo
    /\ main = Spawn("game")
    /\ trace = <<StartTime, SpawnGame>>

-----------------------------------------------------------------------------
(* Properties of GameInfo and of is_terminating.                           *)

DeleteGameInfo == <<"delete", "game_info">>

AddPlayTime == <<"add_play_time", "database">>

SpawnMenu == <<"spawn", "menu">>

WaitMenu == <<"wait", "menu">>

WaitMain == <<"wait", "main">>

\* C21: GameInfo is deleted by the main-exit handler when is_terminating is
\* false and by no other handler: key events, the menu exit, signals and
\* the power-off sequence leave its presence as it is.  Whether
\* Released(Menu) toggles the menu, whether power-off terminates and waits
\* for main, and whether play time is recorded follow GameInfo presence.
C21_GameInfoDeletedOnMainExitOnly ==
    [][ /\ ev' \in {"key", "menu_exit", "signal"} =>
               /\ gameInfo' = gameInfo
               /\ Count(trace', DeleteGameInfo) = 0
        /\ ev' = "main_exit" =>
               IF is_terminating
               THEN /\ gameInfo' = gameInfo
                    /\ Count(trace', DeleteGameInfo) = 0
                    /\ Count(trace', AddPlayTime) = 0
               ELSE /\ ~gameInfo'
                    /\ Count(trace', DeleteGameInfo) = 1
                    /\ Count(trace', AddPlayTime) = (IF gameInfo THEN 1 ELSE 0)
        /\ (ev' = "key" /\ last_key' = ReleasedMenu /\ is_menu_pressed_alone) =>
               (Count(trace', SpawnMenu) + Count(trace', WaitMenu) = 1) = gameInfo
        /\ (ev' = "key" /\ last_key' = AutorepeatPower) =>
               /\ Count(trace', WaitMain) = (IF gameInfo THEN 1 ELSE 0)
               /\ Count(trace', AddPlayTime) = (IF gameInfo THEN 1 ELSE 0)
      ]_vars

\* a main exit was handled with is_terminating set: GameInfo is still there
C21_Witness ==
    /\ ev = "main_exit"
    /\ is_terminating
    /\ gameInfo
    /\ trace = <<>>
    /\ main.state = "reaped"
    /\ main.prog = "game"

-----------------------------------------------------------------------------
(* Properties of failure handling.                                         *)

\* C22: when a spawn of main (at startup or at respawn) or of the menu
\* fails, the daemon's run ends with that handler: the failed spawn is the
\* handler's last call, with no second attempt, and nothing is dispatched
\* once the run has ended.
C22_SpawnFailureIsFatal ==
    [][ /\ (ev' \in {"load", "main_exit"} /\ SpawnMainCount(trace') > 0
            /\ main' # spawn_main(gameInfo')) =>
               /\ pc' = "aborted"
               /\ SpawnMainCount(trace') = 1
               /\ trace'[Len(trace')] \in {SpawnGame, SpawnLauncher}
        /\ (ev' = "key" /\ Count(trace', SpawnMenu) > 0 /\ menu' = None) =>
               /\ pc' = "aborted"
               /\ Count(trace', SpawnMenu) = 1
               /\ trace'[Len(trace')] = SpawnMenu
        /\ pc = "aborted" => UNCHANGED vars
      ]_vars

\* the spawn of the menu failed after main was stopped: the run has ended
C22_Witness ==
    /\ pc = "aborted"
    /\ ev = "key"
    /\ last_key = ReleasedMenu
    /\ menu = None
    /\ trace = <<<<"STOP", "main">>, SpawnMenu>>

\* C23: a signal for a child that has been waited to completion (its pid
\* is gone) is not sent and is no error: the handler goes on as after a
\* delivered signal.  Released(Menu) on a reaped menu just waits; opening
\* the menu over a reaped main spawns the menu; the menu-exit handler
\* clears the slot; power-off waits for main and goes on to poweroff.
C23_SignalWithoutPidIsNoOp ==
    [][ /\ (ev' = "key" /\ last_key' = ReleasedMenu /\ gameInfo
            /\ is_menu_pressed_alone) =>
               IF menu # None
               THEN menu[1].state = "reaped" =>
                        /\ trace' = <<WaitMenu>>
                        /\ menu' = menu
                        /\ pc' = "wait"
               ELSE main.state = "reaped" =>
                        /\ trace' = <<SpawnMenu>>
                        /\ main' = main
                        /\ menu' = Some(Spawn("menu"))
                        /\ pc' = "wait"
        /\ (ev' = "menu_exit" /\ main.state = "reaped") =>
               /\ trace' = <<>>
               /\ main' = main
               /\ menu' = None
               /\ pc' = "wait"
        /\ (ev' = "key" /\ last_key' = AutorepeatPower /\ gameInfo
            /\ main.state = "reaped") =>
               /\ Count(trace', TermMain) = 0
               /\ Count(trace', ContMain) = 0
               /\ Count(trace', WaitMain) = 1
               /\ Count(trace', ExecPowerOff) = 1
               /\ main' = main
      ]_vars

\* the menu was opened and has exited over a main that was waited for at a
\* failed power-off: the menu-exit handler sent nothing
C23_Witness ==
    /\ ev = "menu_exit"
    /\ main.state = "reaped"
    /\ is_terminating
    /\ menu = None
    /\ trace = <<>>
    /\ pc = "wait"

-----------------------------------------------------------------------------
(* Properties of the hardware settings.                                    *)

\* C24: at every top-level wait the volume and the brightness last written
\* to the hardware are the volume and the brightness of the daemon: they
\* are written when the event loop starts and by every add_volume and
\* add_brightness.
C24_WriteThrough ==
    pc = "wait" => (hw.volume = volume /\ hw.brightness = brightness)

\* started from the file (20, 100), then Menu + VolDown and VolDown alone:
\* the hardware has followed both
C24_Witness ==
    /\ pc = "wait"
    /\ ev = "key"
    /\ adjusts = 2
    /\ volume = 19
    /\ brightness = 95
    /\ hw = [volume |-> 19, brightness |-> 95]

-----------------------------------------------------------------------------
(* Properties of the menu-exit source.                                     *)

\* C25: the menu-exit handler runs only in an iteration that began with a
\* child in the menu slot, one that has exited; with the slot None it never
\* runs, and CONT is sent to main only by a handler that found the slot
\* Some.
C25_MenuExitOnlyWithMenu ==
    [][ /\ ev' = "menu_exit" =>
               /\ menu # None
               /\ menu[1].state \in {"zombie", "reaped"}
               /\ menu' = None
        /\ Count(trace', ContMain) > 0 => menu # None
      ]_vars

\* a menu that exited by itself was reaped and the game resumed
C25_Witness ==
    /\ ev = "menu_exit"
    /\ menu = None
    /\ trace = <<ContMain>>
    /\ gameInfo
    /\ main = Spawn("game")
    /\ ~is_menu_pressed
    /\ ~is_menu_pressed_alone

-----------------------------------------------------------------------------
(* Properties of startup and of is_terminating.                            *)

\* C26: load() spawns exactly one main process, whatever the settings
\* file: none is spawned and then dropped for a second one.
C26_OneMainPerLoad ==
    ev = "load" => (SpawnMainCount(trace) = 1 /\ orphans = 0)

\* C27: is_terminating is false from startup on, becomes true only in the
\* Autorepeat(Power) handler, and is never false again; once it is true the
\* main-exit handler spawns nothing, deletes nothing and records no play
\* time, and no handler spawns a main or deletes GameInfo.
C27_TerminatingIsFinal ==
    /\ [](pc \in {"boot", "loaded"} => ~is_terminating)
    /\ [][ /\ is_terminating => is_terminating'
           /\ (~is_terminating /\ is_terminating') =>
                  (ev' = "key" /\ last_key' = AutorepeatPower
                   /\ trace'[1] = <<"save", "state">>)
           /\ (is_terminating /\ ev' = "main_exit") =>
                  /\ trace' = <<>>
                  /\ gameInfo' = gameInfo
                  /\ main' = Waited(main)
           /\ is_terminating =>
                  /\ SpawnMainCount(trace') = 0
                  /\ Count(trace', DeleteGameInfo) = 0
                  /\ gameInfo => gameInfo'
         ]_vars

\* after a power-off outside a game whose exec failed, the launcher exited
\* and was not respawned
C27_Witness ==
    /\ is_terminating
    /\ ev = "main_exit"
    /\ pc = "wait"
    /\ main.prog = "launcher"
    /\ main.state = "reaped"
    /\ ~gameInfo

-----------------------------------------------------------------------------
(* Properties of the STOP / CONT pairing.                                  *)

\* the menu in the slot has exited and the loop is at its wait
MenuGone == pc = "wait" /\ menu # None /\ menu[1].state \in {"zombie", "reaped"}

\* the menu-exit handler has run: slot None, CONT sent, main not stopped
MainResumed ==
    /\ ev = "menu_exit"
    /\ menu = None
    /\ trace = <<ContMain>>
    /\ ~MainStopped
    /\ main.state # "stopped"

\* C28: with select! fair to its ready branches, once the menu has exited,
\* by itself or after terminate(), the daemon eventually clears the slot and
\* sends CONT to main (unless it powers off first, which resumes main
\* itself); and at no top-level wait is main stopped while the slot is None.
C28_StopContPairing ==
    /\ []((pc = "wait" /\ menu = None) => (~MainStopped /\ main.state # "stopped"))
    /\ (MenuGone ~> (MainResumed \/ pc # "wait"))

\* a game stopped under the menu runs again after the menu was terminated
\* by the chord and reaped
C28_Witness ==
    /\ MainResumed
    /\ pc = "wait"
    /\ main = Spawn("game")
    /\ last_key = ReleasedMenu
    /\ adjusts = 1

-----------------------------------------------------------------------------
(* Properties of the play time.                                            *)

\* C29: add_play_time is called at most once for an interval of play: a
\* handler calls it once at most, and never for an interval (the time since
\* GameInfo.start_time) that a call has recorded already.
C29_PlayTimeCountedOnce ==
    [][ Count(trace', AddPlayTime) > 0 =>
            (~recorded /\ Count(trace', AddPlayTime) = 1)
      ]_vars

-----------------------------------------------------------------------------
(* Properties of the menu chord.                                           *)

\* C30: the menu is toggled (spawned or terminated) only by the handler of
\* a Released(Menu) whose preceding key event was Pressed(Menu); and
\* is_menu_pressed_alone is never true at a top-level wait while
\* is_menu_pressed is false.
C30_ToggleOnlyAfterPress ==
    /\ []((pc = "wait" /\ is_menu_pressed_alone) => is_menu_pressed)
    /\ [][ (ev' = "key"
            /\ Count(trace', SpawnMenu) + Count(trace', WaitMenu) > 0) =>
               (last_key' = ReleasedMenu /\ last_key = PressedMenu)
         ]_vars

-----------------------------------------------------------------------------
(* The launcher's listings: GamesState (games.rs) and RecentsState          *)
(* (recents.rs).  A listing is its number of entries; a directory is the    *)
(* number of entries it holds; top and selected are i32.  A panic of the    *)
(* handler ends the launcher process: Option results are None for a panic.  *)

\* i32::rem_euclid: panics when rhs = 0, else the remainder in 0..|rhs|-1
i32_rem_euclid(x, rhs) ==
    IF rhs = 0 THEN None
    ELSE Some(x % (IF rhs < 0 THEN -rhs ELSE rhs))

\* Ord::clamp: asserts min <= max, then restricts x to min..max
i32_clamp(x, min, max) ==
    IF min > max THEN None
    ELSE Some(IF x < min THEN min ELSE IF x > max THEN max ELSE x)

\* Vec::get(selected as usize).is_some(): selected is never negative here
HasEntry(selected, len) == 0 <= selected /\ selected < len

LauncherKeys == {"A", "B", "Up", "Down", "Left", "Right", "Start"}

LauncherKeyEvents ==
    {<<t, k>> : t \in {"Pressed", "Released", "Autorepeat"}, k \in LauncherKeys}

\* the arms KeyEvent::Pressed(key) | KeyEvent::Autorepeat(key)
Repeats(e) == e[1] \in {"Pressed", "Autorepeat"}

\* View::new(directory, top, selected)
View_new(directory, top, selected) ==
    [top |-> top, selected |-> selected, directory |-> directory]

\* --- RecentsState ---------------------------------------------------------

\* RecentsState::new() followed by enter(), which loads n recent games
RecentsState_new(n) ==
    [state |-> "recents", top |-> 0, selected |-> 0, entries |-> n,
     panicked |-> FALSE, key |-> <<>>]

\* Key::Up
recents_Up(self) ==
    LET len == self.entries
        r == i32_rem_euclid(self.selected - 1, len)
    IN IF r = None THEN None
       ELSE LET s == r[1]
                t1 == IF s < self.top THEN s ELSE self.top
                t2 == IF s - LISTING_SIZE >= t1 THEN len - LISTING_SIZE ELSE t1
            IN Some([self EXCEPT !.selected = s, !.top = t2])

\* Key::Down
recents_Down(self) ==
    LET len == self.entries
        r == i32_rem_euclid(self.selected + 1, len)
    IN IF r = None THEN None
       ELSE LET s == r[1]
                t1 == IF s < self.top THEN 0 ELSE self.top
                t2 == IF s - LISTING_SIZE >= t1 THEN s - LISTING_SIZE + 1 ELSE t1
            IN Some([self EXCEPT !.selected = s, !.top = t2])

\* Key::Left
recents_Left(self) ==
    LET len == self.entries
        r == i32_clamp(self.selected - LISTING_JUMP_SIZE, 0, len - 1)
    IN IF r = None THEN None
       ELSE LET s == r[1]
                t1 == IF s < self.top THEN s ELSE self.top
            IN Some([self EXCEPT !.selected = s, !.top = t1])

\* Key::Right
recents_Right(self) ==
    LET len == self.entries
        r == i32_clamp(self.selected + LISTING_JUMP_SIZE, 0, len - 1)
    IN IF r = None THEN None
       ELSE LET s == r[1]
                t1 == IF s - LISTING_SIZE >= self.top
                      THEN s - LISTING_SIZE + 1 ELSE self.top
            IN Some([self EXCEPT !.selected = s, !.top = t1])

\* RecentsState::handle_key_event: Pressed(A) launches the selected game
\* (a command for the caller, the listing stays as it is); B and the other
\* keys fall through to (None, false).
recents_handle_key_event(self, e) ==
    IF e = <<"Pressed", "A">> THEN Some(self)
    ELSE IF ~Repeats(e) THEN Some(self)
    ELSE IF e[2] = "Up" THEN recents_Up(self)
    ELSE IF e[2] = "Down" THEN recents_Down(self)
    ELSE IF e[2] = "Left" THEN recents_Left(self)
    ELSE IF e[2] = "Right" THEN recents_Right(self)
    ELSE Some(self)

\* --- GamesState -----------------------------------------------------------

\* GamesState::new() followed by enter(): the games directory holds n entries
GamesState_new(n) ==
    [state |-> "games", stack |-> <<View_new(n, 0, 0)>>, entries |-> n,
     panicked |-> FALSE, key |-> <<>>]

\* self.view() / self.view_mut(): the last view of the stack
view(self) == self.stack[Len(self.stack)]

with_view(self, v) == [self EXCEPT !.stack[Len(self.stack)] = v]

\* change_directory(): the entries of the directory of the last view
change_directory(self) == [self EXCEPT !.entries = view(self).directory]

\* push_directory(directory)
push_directory(self, directory) ==
    change_directory([self EXCEPT !.stack = Append(@, View_new(directory, 0, 0))])

\* pop_directory()
pop_directory(self) ==
    change_directory(IF Len(self.stack) > 1
                     THEN [self EXCEPT !.stack = SubSeq(@, 1, Len(@) - 1)]
                     ELSE self)

\* select_entry(selected): entry is None for Entry::Game (a command for the
\* caller) and Some(n) for Entry::Directory of n entries
select_entry(self, entry) ==
    IF entry = None THEN self ELSE push_directory(self, entry[1])

\* Key::Up
games_Up(self) ==
    LET len == self.entries
        v == view(self)
        r == i32_rem_euclid(v.selected - 1, len)
    IN IF r = None THEN None
       ELSE LET s == r[1]
                t1 == IF s < v.top THEN s ELSE v.top
                t2 == IF s - LISTING_SIZE >= t1 THEN len - LISTING_SIZE ELSE t1
            IN Some(with_view(self, [v EXCEPT !.selected = s, !.top = t2]))

\* Key::Down without the scroll that follows the selection down
games_Down_no_scroll(self) ==
    LET len == self.entries
        v == view(self)
        r == i32_rem_euclid(v.selected + 1, len)
    IN IF r = None THEN None
       ELSE LET s == r[1]
                t1 == IF s < v.top THEN 0 ELSE v.top
            IN Some(with_view(self, [v EXCEPT !.selected = s, !.top = t1]))

\* Key::Down
games_Down(self) ==
    LET len == self.entries
        v == view(self)
        r == i32_rem_euclid(v.selected + 1, len)
    IN IF r = None THEN None
       ELSE LET s == r[1]
                t1 == IF s < v.top THEN 0 ELSE v.top
                t2 == IF s - LISTING_SIZE >= t1 THEN s - LISTING_SIZE + 1 ELSE t1
            IN Some(with_view(self, [v EXCEPT !.selected = s, !.top = t2]))

\* Key::Left
games_Left(self) ==
    LET len == self.entries
        v == view(self)
        r == i32_clamp(v.selected - LISTING_JUMP_SIZE, 0, len - 1)
    IN IF r = None THEN None
       ELSE LET s == r[1]
                t1 == IF s < v.top THEN s ELSE v.top
            IN Some(with_view(self, [v EXCEPT !.selected = s, !.top = t1]))

\* Key::Right
games_Right(self) ==
    LET len == self.entries
        v == view(self)
        r == i32_clamp(v.selected + LISTING_JUMP_SIZE, 0, len - 1)
    IN IF r = None THEN None
       ELSE LET s == r[1]
                t1 == IF s - LISTING_SIZE >= v.top
                      THEN s - LISTING_SIZE + 1 ELSE v.top
            IN Some(with_view(self, [v EXCEPT !.selected = s, !.top = t1]))

\* GamesState::handle_key_event; entry is what the selected entry is on disk
games_handle_key_event(self, e, entry) ==
    IF e = <<"Pressed", "A">>
    THEN IF HasEntry(view(self).selected, self.entries)
         THEN Some(select_entry(self, entry))
         ELSE Some(self)
    ELSE IF e = <<"Pressed", "B">> THEN Some(pop_directory(self))
    ELSE IF ~Repeats(e) THEN Some(self)
    ELSE IF e[2] = "Up" THEN games_Up(self)
    ELSE IF e[2] = "Down" THEN games_Down(self)
    ELSE IF e[2] = "Left" THEN games_Left(self)
    ELSE IF e[2] = "Right" THEN games_Right(self)
    ELSE Some(self)

\* --- SpecLauncher ---------------------------------------------------------

\* the listing after a handler returned r: a panic ends the process with the
\* listing as it was
Handled(r, e) ==
    IF r = None THEN [launcher EXCEPT !.panicked = TRUE, !.key = e]
    ELSE [r[1] EXCEPT !.key = e]

DaemonVars == <<pc, stateFile, gameInfo, main, orphans, menu, is_menu_pressed,
                is_menu_pressed_alone, is_terminating, volume, brightness, hw,
                ev, last_key, trace, adjusts, delta, recorded>>

\* a key event reaches the recents listing
RecentsKey(e) ==
    /\ launcher.state = "recents"
    /\ ~launcher.panicked
    /\ launcher' = Handled(recents_handle_key_event(launcher, e), e)
    /\ UNCHANGED DaemonVars

\* what an entry of the games listing can be: a game (None), an empty
\* directory, a directory of MaxLen entries
Entries == {None, Some(0), Some(MaxLen)}

\* the entries on disk: no directory below MaxDepth
EntriesOnDisk(self) ==
    IF Len(self.stack) < MaxDepth THEN Entries ELSE {None}

\* a key event reaches the games listing; only Pressed(A) looks at the entry
GamesKey(e, entry) ==
    /\ launcher.state = "games"
    /\ ~launcher.panicked
    /\ entry \in EntriesOnDisk(launcher)
    /\ e # <<"Pressed", "A">> => entry = None
    /\ launcher' = Handled(games_handle_key_event(launcher, e, entry), e)
    /\ UNCHANGED DaemonVars

\* the launcher runs under a daemon that waits with default settings
InitLauncher ==
    /\ stateFile = None
    /\ gameInfo = FALSE
    /\ pc = "wait"
    /\ volume = new.volume
    /\ brightness = new.brightness
    /\ main = spawn_main(gameInfo)
    /\ orphans = 0
    /\ menu = None
    /\ is_menu_pressed = FALSE
    /\ is_menu_pressed_alone = FALSE
    /\ is_terminating = FALSE
    /\ hw = [volume |-> new.volume, brightness |-> new.brightness]
    /\ ev = "start"
    /\ last_key = <<>>
    /\ trace = <<>>
    /\ adjusts = 0
    /\ delta = 0
    /\ recorded = FALSE
    /\ \E n \in 0..MaxLen : launcher \in {RecentsState_new(n), GamesState_new(n)}

NextLauncher ==
    \/ \E e \in LauncherKeyEvents : RecentsKey(e)
    \/ \E e \in LauncherKeyEvents : \E entry \in Entries : GamesKey(e, entry)

SpecLauncher == InitLauncher /\ [][NextLauncher]_vars

-----------------------------------------------------------------------------
(* Claims about the launcher's listings (SpecLauncher).                     *)

\* the cursor of the listing on the screen
Selected == IF launcher.state = "games" THEN view(launcher).selected
            ELSE launcher.selected

Top == IF launcher.state = "games" THEN view(launcher).top ELSE launcher.top

\* the selection is an entry of the listing and a row of the screen
SelectionVisible ==
    /\ ~launcher.panicked
    /\ 0 <= Selected /\ Selected < launcher.entries
    /\ 0 <= Top /\ Top <= Selected /\ Selected < Top + LISTING_SIZE

\* a step that handles Up, Down, Left or Right moves the selection as the
\* key says: by one with wrap-around, or by LISTING_JUMP_SIZE up to the end
MovesAsKeyed ==
    LET e == launcher'.key
        len == launcher.entries
    IN (len >= 1 /\ Repeats(e)) =>
         /\ e[2] = "Up" =>
              Selected' = (IF Selected = 0 THEN len - 1 ELSE Selected - 1)
         /\ e[2] = "Down" =>
              Selected' = (IF Selected = len - 1 THEN 0 ELSE Selected + 1)
         /\ e[2] = "Left" =>
              Selected' = (IF Selected < LISTING_JUMP_SIZE THEN 0
                           ELSE Selected - LISTING_JUMP_SIZE)
         /\ e[2] = "Right" =>
              Selected' = (IF Selected + LISTING_JUMP_SIZE > len - 1 THEN len - 1
                           ELSE Selected + LISTING_JUMP_SIZE)

\* C31: in a listing of len >= 1 entries, from selected = 0 and top = 0, every
\* sequence of Up, Down, Left and Right (pressed or autorepeat) keeps
\* 0 <= selected < len and 0 <= top <= selected < top + LISTING_SIZE; Up and
\* Down wrap around the ends, Left and Right move by LISTING_JUMP_SIZE and
\* stop at the ends.
C31_NavigationKeepsSelectionVisible ==
    /\ [](launcher.entries >= 1 => SelectionVisible)
    /\ [][MovesAsKeyed]_vars

\* Up at the first entry of a listing longer than the screen wrapped to the
\* last entry and scrolled to the last screenful
C31_Witness ==
    /\ launcher.entries > LISTING_SIZE
    /\ launcher.key = <<"Autorepeat", "Up">>
    /\ Selected = launcher.entries - 1
    /\ Top = launcher.entries - LISTING_SIZE

\* C32: on an empty listing (len = 0: an empty games directory, no recently
\* played games) every key event A, Up, Down, Left or Right is handled
\* without a crash, and selected and top stay 0.
C32_EmptyListingIsHandled ==
    launcher.entries = 0 =>
        (~launcher.panicked /\ Selected = 0 /\ Top = 0)

====
